---- MODULE Spec2Model ----
(***************************************************************************)
(* Danish Verbs Practice (src/verbs/src/main.rs): the quiz state held by   *)
(* DanishVerbsApp, its methods next_verb and check_answer, the loader      *)
(* load_verbs and the per-frame handler update.                            *)
(*                                                                         *)
(* A string is a sequence of characters.  Indices are 0-based as in the    *)
(* source, so verbs[i] of the source is verbs[i + 1] here.                 *)
(***************************************************************************)
EXTENDS Integers, Sequences, FiniteSets

VARIABLES
    file,     \* content of src/verbs.json when new() ran
    stderr,   \* diagnostics written by load_verbs
    app,      \* the DanishVerbsApp instance
    pc,       \* position inside update(), or "panicked"
    frame,    \* the locals update() copies out of self for display (lines 144-148)
    op,       \* history: the method the last step called
    was_shown,\* history: show_result just before the last method call
    graded,   \* history: check_answer has run since new() or the last next_verb
    hist      \* history: the last Len(verbs) + 1 values of current_verb_index

vars == <<file, stderr, app, pc, frame, op, was_shown, graded, hist>>

----------------------------------------------------------------------------
(* Bounds *)

\* longest text the answer field receives
MaxLen == 2
\* largest number of verbs in src/verbs.json
MaxVerbs == 2

----------------------------------------------------------------------------
(* Strings *)

Chars == {" ", "a", "A"}

IsWhitespace(c) == c = " "

\* char::to_lowercase on the alphabet
LowerChar(c) == IF c = "A" THEN "a" ELSE c

\* str::to_lowercase
to_lowercase(s) == [i \in 1..Len(s) |-> LowerChar(s[i])]

RECURSIVE trim_start(_)
trim_start(s) ==
    IF s # <<>> /\ IsWhitespace(Head(s)) THEN trim_start(Tail(s)) ELSE s

RECURSIVE trim_end(_)
trim_end(s) ==
    IF s # <<>> /\ IsWhitespace(s[Len(s)])
    THEN trim_end(SubSeq(s, 1, Len(s) - 1))
    ELSE s

\* str::trim
trim(s) == trim_end(trim_start(s))

\* what the TextEdit widget can leave in user_answer
Texts == UNION {[1..n -> Chars] : n \in 0..MaxLen}

----------------------------------------------------------------------------
(* Verbs and the data file *)

Verb(inf, pres, pst, pp, eng) ==
    [infinitive |-> inf, present |-> pres, past |-> pst,
     past_participle |-> pp, english |-> eng]

\* entries a verbs.json can hold; fields are passed through as written,
\* so some carry upper case or surrounding blanks
Catalogue ==
    << Verb(<<"a">>, <<"A", "a">>, <<"a", " ", "a">>, <<"a", "a", "a">>, <<" ", "A">>),
       Verb(<<"a", "a">>, <<" ", "a", " ">>, <<"A", "A">>, <<"A", " ", "a">>, <<"a", "A", "a">>),
       Verb(<<"A">>, <<"a", "a", "a">>, <<"a", " ">>, <<"a", "a">>, <<"a", " ", "A">>),
       Verb(<<"a", "A">>, <<"a">>, <<" ", "a", "a">>, <<"A", " ", "A">>, <<"A", "a", "A">>) >>

\* A readable file either parses to an array of verbs or does not parse.
Files ==
    {[readable |-> FALSE, parses |-> FALSE, data |-> <<>>],
     [readable |-> TRUE, parses |-> FALSE, data |-> <<>>]}
    \cup {[readable |-> TRUE, parses |-> TRUE, data |-> SubSeq(Catalogue, 1, n)]
            : n \in 0..MaxVerbs}

\* load_verbs: the verbs and the diagnostic it prints
load_verbs(f) ==
    IF ~f.readable THEN [verbs |-> <<>>, diag |-> <<"Error reading verb file">>]
    ELSE IF ~f.parses THEN [verbs |-> <<>>, diag |-> <<"Error parsing verb data">>]
    ELSE [verbs |-> f.data, diag |-> <<>>]

\* slice::shuffle: every ordering of the loaded verbs
shuffle(vs) ==
    LET n == Len(vs)
        Perms == {p \in [1..n -> 1..n] : \A i, j \in 1..n : p[i] = p[j] => i = j}
    IN {[i \in 1..n |-> vs[p[i]]] : p \in Perms}

----------------------------------------------------------------------------
(* DanishVerbsApp *)

PracticeModes == {"Translation", "Conjugation"}
ConjugationForms == {"Present", "Past", "PastParticiple"}

\* DanishVerbsApp::new, given the shuffled verbs
new(vs) ==
    [verbs |-> vs,
     current_verb_index |-> 0,
     practice_mode |-> "Translation",
     conjugation_form |-> "Present",
     user_answer |-> <<>>,
     result_message |-> <<>>,
     show_result |-> FALSE,
     fonts_loaded |-> FALSE]

\* load_fonts: heading_font and body_font are Some exactly when fonts_loaded
load_fonts(self) == [self EXCEPT !.fonts_loaded = TRUE]

\* a match that sends 1 to the first arm
FormOf_first_arm_twice(n) ==
    CASE n = 0 -> "Present"
      [] n = 1 -> "Present"
      [] OTHER -> "PastParticiple"

\* the match on the value of random_range(0..=2), lines 103-107
FormOf(n) ==
    CASE n = 0 -> "Present"
      [] n = 1 -> "Past"
      [] OTHER -> "PastParticiple"

\* next_verb, lines 97-108: coin is the value of random(), n the value of
\* random_range(0..=2); conjugation_form is assigned only in the else branch
choose_mode(self, coin, n) ==
    IF coin
    THEN [self EXCEPT !.practice_mode = "Translation"]
    ELSE [self EXCEPT !.practice_mode = "Conjugation",
                      !.conjugation_form = FormOf(n)]

\* next_verb, lines 92-94
clear_answer(self) ==
    [self EXCEPT !.user_answer = <<>>,
                 !.result_message = <<>>,
                 !.show_result = FALSE]

\* a next_verb whose remainder is taken by len + 1
next_verb_wrap_late(self, coin, n) ==
    IF Len(self.verbs) = 0
    THEN [app |-> self, panic |-> TRUE]
    ELSE [app |-> choose_mode(clear_answer(
                    [self EXCEPT !.current_verb_index =
                        (self.current_verb_index + 1) % (Len(self.verbs) + 1)]),
                    coin, n),
          panic |-> FALSE]

\* a next_verb that increments without the remainder
next_verb_no_remainder(self, coin, n) ==
    [app |-> choose_mode(clear_answer(
                [self EXCEPT !.current_verb_index = self.current_verb_index + 1]),
                coin, n),
     panic |-> FALSE]

\* a next_verb that leaves the typed answer in the field
next_verb_keeps_answer(self, coin, n) ==
    IF Len(self.verbs) = 0
    THEN [app |-> self, panic |-> TRUE]
    ELSE [app |-> choose_mode(
                    [self EXCEPT !.current_verb_index =
                        (self.current_verb_index + 1) % Len(self.verbs),
                                 !.result_message = <<>>,
                                 !.show_result = FALSE],
                    coin, n),
          panic |-> FALSE]

\* a next_verb that leaves the result of the previous question on display
next_verb_keeps_result(self, coin, n) ==
    IF Len(self.verbs) = 0
    THEN [app |-> self, panic |-> TRUE]
    ELSE [app |-> choose_mode(
                    [self EXCEPT !.current_verb_index =
                        (self.current_verb_index + 1) % Len(self.verbs),
                                 !.user_answer = <<>>],
                    coin, n),
          panic |-> FALSE]

\* a next_verb that clears the fields before it computes the index
next_verb_clears_first(self, coin, n) ==
    IF Len(self.verbs) = 0
    THEN [app |-> clear_answer(self), panic |-> TRUE]
    ELSE [app |-> choose_mode(clear_answer(
                    [self EXCEPT !.current_verb_index =
                        (self.current_verb_index + 1) % Len(self.verbs)]),
                    coin, n),
          panic |-> FALSE]

\* next_verb.  The remainder panics on a zero divisor before anything is
\* assigned.
next_verb(self, coin, n) ==
    IF Len(self.verbs) = 0
    THEN [app |-> self, panic |-> TRUE]
    ELSE [app |-> choose_mode(clear_answer(
                    [self EXCEPT !.current_verb_index =
                        (self.current_verb_index + 1) % Len(self.verbs)]),
                    coin, n),
          panic |-> FALSE]

\* correct_answer of check_answer, lines 113-120
correct_answer(verb, mode, form) ==
    IF mode = "Translation" THEN verb.english
    ELSE CASE form = "Present" -> verb.present
           [] form = "Past" -> verb.past
           [] OTHER -> verb.past_participle

\* "Correct! " and the emoji, as one character
CorrectMessage == <<"Correct!">>
\* format!("Incorrect. The correct answer is: {}", correct_answer), the fixed
\* text as one character
IncorrectMessage(answer) == <<"Incorrect. The correct answer is: ">> \o answer

\* a comparison that lower-cases the typed answer only
result_for_expected_as_written(typed, answer) ==
    IF to_lowercase(trim(typed)) = trim(answer)
    THEN CorrectMessage
    ELSE IncorrectMessage(answer)

\* check_answer, lines 122-126
result_for(typed, answer) ==
    IF to_lowercase(trim(typed)) = to_lowercase(trim(answer))
    THEN CorrectMessage
    ELSE IncorrectMessage(answer)

\* a check_answer that empties the field once the answer is graded
check_answer_takes_answer(self) ==
    IF self.current_verb_index >= Len(self.verbs)
    THEN [app |-> self, panic |-> TRUE]
    ELSE [app |-> [self EXCEPT
                     !.result_message =
                         result_for(self.user_answer,
                                    correct_answer(self.verbs[self.current_verb_index + 1],
                                                   self.practice_mode,
                                                   self.conjugation_form)),
                     !.show_result = TRUE,
                     !.user_answer = <<>>],
          panic |-> FALSE]

\* a check_answer that grades a question once
check_answer_first_only(self) ==
    IF self.current_verb_index >= Len(self.verbs)
    THEN [app |-> self, panic |-> TRUE]
    ELSE IF self.show_result
    THEN [app |-> self, panic |-> FALSE]
    ELSE [app |-> [self EXCEPT
                     !.result_message =
                         result_for(self.user_answer,
                                    correct_answer(self.verbs[self.current_verb_index + 1],
                                                   self.practice_mode,
                                                   self.conjugation_form)),
                     !.show_result = TRUE],
          panic |-> FALSE]

\* check_answer; indexing verbs panics when the index is out of bounds
check_answer(self) ==
    IF self.current_verb_index >= Len(self.verbs)
    THEN [app |-> self, panic |-> TRUE]
    ELSE [app |-> [self EXCEPT
                     !.result_message =
                         result_for(self.user_answer,
                                    correct_answer(self.verbs[self.current_verb_index + 1],
                                                   self.practice_mode,
                                                   self.conjugation_form)),
                     !.show_result = TRUE],
          panic |-> FALSE]

NoFrame == [shown |-> FALSE]

\* update, lines 143-148: the copies the frame is drawn from
snapshot(self) ==
    [shown |-> TRUE,
     current_verb |-> self.verbs[self.current_verb_index + 1],
     practice_mode |-> self.practice_mode,
     conjugation_form |-> self.conjugation_form,
     show_result |-> self.show_result,
     result_message |-> self.result_message]

\* the window of current_verb_index values kept for the cycle property
Remember(h, self) ==
    LET all == Append(h, self.current_verb_index)
        keep == Len(self.verbs) + 1
    IN IF Len(all) > keep THEN SubSeq(all, Len(all) - keep + 1, Len(all)) ELSE all

----------------------------------------------------------------------------
(* The application: main runs new() once, then eframe calls update() for   *)
(* every frame.                                                            *)

Init ==
    /\ file \in Files
    /\ stderr = load_verbs(file).diag
    /\ app \in {new(vs) : vs \in shuffle(load_verbs(file).verbs)}
    /\ pc = "idle"
    /\ frame = NoFrame
    /\ op = "new"
    /\ was_shown = FALSE
    /\ graded = FALSE
    /\ hist = <<0>>

\* the effect of calling a method whose result is r
Called(name, r, next_pc) ==
    /\ op' = name
    /\ was_shown' = app.show_result
    /\ app' = r.app
    /\ pc' = IF r.panic THEN "panicked" ELSE next_pc
    /\ graded' = IF r.panic THEN graded ELSE (name = "check_answer")
    /\ hist' = IF name = "next_verb" /\ ~r.panic THEN Remember(hist, r.app) ELSE hist

\* update, lines 132-148: load the fonts, copy the current verb out of self
UpdateBegin ==
    /\ pc = "idle"
    /\ op' = "update"
    /\ app' = load_fonts(app)
    /\ IF app.current_verb_index >= Len(app.verbs)
       THEN pc' = "panicked" /\ frame' = NoFrame
       ELSE pc' = "edit" /\ frame' = snapshot(app)
    /\ UNCHANGED <<file, stderr, was_shown, graded, hist>>

\* update, lines 202-207: the text field writes what the user typed
TextEdit ==
    /\ pc = "edit"
    /\ \E text \in Texts \cup {app.user_answer} :
         app' = [app EXCEPT !.user_answer = text]
    /\ pc' = "enter"
    /\ op' = "edit"
    /\ UNCHANGED <<file, stderr, frame, was_shown, graded, hist>>

\* update, lines 209-211: Enter pressed as the field loses focus
EnterKey ==
    /\ pc = "enter"
    /\ \/ Called("check_answer", check_answer(app), "check")
       \/ /\ pc' = "check" /\ op' = "none"
          /\ UNCHANGED <<app, was_shown, graded, hist>>
    /\ UNCHANGED <<file, stderr, frame>>

\* update, lines 231-233: the Check button
CheckButton ==
    /\ pc = "check"
    /\ \/ Called("check_answer", check_answer(app), "next")
       \/ /\ pc' = "next" /\ op' = "none"
          /\ UNCHANGED <<app, was_shown, graded, hist>>
    /\ UNCHANGED <<file, stderr, frame>>

\* update, lines 246-248 and the return: the Next verb button
NextButton ==
    /\ pc = "next"
    /\ \/ \E coin \in BOOLEAN, n \in 0..2 :
            Called("next_verb", next_verb(app, coin, n), "idle")
       \/ /\ pc' = "idle" /\ op' = "none"
          /\ UNCHANGED <<app, was_shown, graded, hist>>
    /\ frame' = NoFrame
    /\ UNCHANGED <<file, stderr>>

Next == UpdateBegin \/ TextEdit \/ EnterKey \/ CheckButton \/ NextButton

Spec == Init /\ [][Next]_vars

----------------------------------------------------------------------------
(* The engine on its own: a caller that holds the DanishVerbsApp and calls *)
(* its methods directly, in any order, the way a unit test of the quiz     *)
(* logic does.  update() is called with no input event pending.            *)

\* the caller fills the answer buffer; two writes in a row leave what the
\* second wrote, so a write follows a call
SetAnswer ==
    /\ pc = "idle"
    /\ op # "edit"
    /\ \E text \in Texts : app' = [app EXCEPT !.user_answer = text]
    /\ op' = "edit"
    /\ UNCHANGED <<file, stderr, pc, frame, was_shown, graded, hist>>

CallCheckAnswer ==
    /\ pc = "idle"
    /\ Called("check_answer", check_answer(app), "idle")
    /\ UNCHANGED <<file, stderr, frame>>

CallNextVerb ==
    /\ pc = "idle"
    /\ \E coin \in BOOLEAN, n \in 0..2 :
         Called("next_verb", next_verb(app, coin, n), "idle")
    /\ UNCHANGED <<file, stderr, frame>>

\* one whole frame in which no widget reports an event
CallUpdate ==
    /\ pc = "idle"
    /\ op' = "update"
    /\ app' = load_fonts(app)
    /\ pc' = IF app.current_verb_index >= Len(app.verbs) THEN "panicked" ELSE "idle"
    /\ UNCHANGED <<file, stderr, frame, was_shown, graded, hist>>

EngineNext == SetAnswer \/ CallCheckAnswer \/ CallNextVerb \/ CallUpdate

EngineSpec == Init /\ [][EngineNext]_vars

----------------------------------------------------------------------------
(* What the properties speak of, written from the data model alone *)

\* the six fields that make up the quiz state
QuizState(self) ==
    [verbs |-> self.verbs,
     current_verb_index |-> self.current_verb_index,
     practice_mode |-> self.practice_mode,
     conjugation_form |-> self.conjugation_form,
     user_answer |-> self.user_answer,
     result_message |-> self.result_message,
     show_result |-> self.show_result]

\* the field of a verb a question asks for
AskedField(verb, mode, form) ==
    CASE mode = "Translation" -> verb.english
      [] mode = "Conjugation" /\ form = "Present" -> verb.present
      [] mode = "Conjugation" /\ form = "Past" -> verb.past
      [] mode = "Conjugation" /\ form = "PastParticiple" -> verb.past_participle

ExpectedAnswer(self) ==
    AskedField(self.verbs[self.current_verb_index + 1],
               self.practice_mode, self.conjugation_form)

\* core is s without the blanks before its first and after its last non-blank
IsTrimOf(core, s) ==
    \E i \in 0..Len(s) : \E j \in i..Len(s) :
        /\ core = SubSeq(s, i + 1, j)
        /\ \A k \in 1..i : s[k] = " "
        /\ \A k \in (j + 1)..Len(s) : s[k] = " "
        /\ core # <<>> => core[1] # " " /\ core[Len(core)] # " "

Pieces(s) == {SubSeq(s, i + 1, j) : i \in 0..Len(s), j \in 0..Len(s)}

\* a and b are the same text up to the case of their letters
SameUpToCase(a, b) ==
    /\ Len(a) = Len(b)
    /\ \A k \in 1..Len(a) : a[k] = b[k] \/ {a[k], b[k]} = {"a", "A"}

EqualNormalised(s, t) ==
    \E a \in Pieces(s), b \in Pieces(t) :
        IsTrimOf(a, s) /\ IsTrimOf(b, t) /\ SameUpToCase(a, b)

Kind(self) ==
    IF self.practice_mode = "Translation" THEN <<"Translation">>
    ELSE <<self.practice_mode, self.conjugation_form>>

Kinds ==
    {<<"Translation">>, <<"Conjugation", "Present">>, <<"Conjugation", "Past">>,
     <<"Conjugation", "PastParticiple">>}

Occurrences(seq, x) == Cardinality({i \in 1..Len(seq) : seq[i] = x})

Running == pc # "panicked"

----------------------------------------------------------------------------
(* Properties *)

\* C1: check_answer on a non-empty list leaves "Correct" exactly when the typed
\* answer and the asked field of the current verb are equal once surrounding
\* blanks are dropped and case is ignored; otherwise it leaves "Incorrect"
\* followed by the asked field as it is written in the data.
C1_GradeComparesNormalised ==
    [][ (op' = "check_answer" /\ pc' # "panicked") =>
          /\ app'.show_result
          /\ app'.result_message =
               IF EqualNormalised(app.user_answer, ExpectedAnswer(app))
               THEN CorrectMessage
               ELSE IncorrectMessage(ExpectedAnswer(app)) ]_vars

\* an answer that differs from the field as written is graded Correct in a
\* conjugation question
C1_Witness ==
    /\ op = "check_answer" /\ Running
    /\ app.practice_mode = "Conjugation"
    /\ app.result_message = CorrectMessage
    /\ app.user_answer # ExpectedAnswer(app)

\* C2: new() stores the verbs of the file in some order, each as often as the
\* file holds it; N = Len(verbs) >= 1 calls of next_verb in a row, with any
\* check_answer calls between them, make every index current exactly once and
\* end on the index they started from; with one verb the index stays 0.
C2_AdvanceCycles ==
    LET N == Len(app.verbs) IN
    /\ (file.readable /\ file.parses) =>
          /\ N = Len(file.data)
          /\ \A i \in 1..N : Occurrences(app.verbs, file.data[i])
                               = Occurrences(file.data, file.data[i])
    /\ hist[Len(hist)] = app.current_verb_index
    /\ (N >= 1 /\ Len(hist) = N + 1) =>
          /\ hist[N + 1] = hist[1]
          /\ \A i \in 0..(N - 1) :
                Cardinality({k \in 2..(N + 1) : hist[k] = i}) = 1
    /\ N = 1 => app.current_verb_index = 0

\* a full round over at least two verbs, the last next_verb called on a graded
\* question
C2_Witness ==
    /\ Len(app.verbs) >= 2
    /\ Len(hist) = Len(app.verbs) + 1
    /\ op = "next_verb" /\ was_shown

\* C3: a file that cannot be read or parsed gives an empty verb list and the
\* application started from it never panics.
C3_LoadFailureNeverCrashes ==
    (~file.readable \/ ~file.parses) =>
        /\ app.verbs = <<>>
        /\ stderr # <<>>
        /\ pc # "panicked"

\* C4: after next_verb on a non-empty list the answer field is empty and no
\* result is on display, whatever mode and form were chosen.
C4_AdvanceClears ==
    (op = "next_verb" /\ Running) =>
        /\ app.user_answer = <<>>
        /\ ~app.show_result
        /\ app.result_message = <<>>

\* next_verb called on a graded question, choosing a conjugation question
C4_Witness ==
    /\ op = "next_verb" /\ Running /\ was_shown
    /\ app.practice_mode = "Conjugation"

\* C5: check_answer changes nothing but the result: verbs, index, mode, form
\* and the typed answer are as they were.
C5_GradeFrame ==
    [][ op' = "check_answer" =>
          /\ app'.verbs = app.verbs
          /\ app'.current_verb_index = app.current_verb_index
          /\ app'.practice_mode = app.practice_mode
          /\ app'.conjugation_form = app.conjugation_form
          /\ app'.user_answer = app.user_answer ]_vars

\* a typed answer graded on a later question
C5_Witness ==
    /\ op = "check_answer" /\ Running
    /\ app.user_answer # <<>>
    /\ app.current_verb_index > 0

\* C6: check_answer always ends with a result on display, and that result is
\* the one it gives when no result was there before: the earlier result plays
\* no part.
C6_RegradeOverwrites ==
    [][ (op' = "check_answer" /\ pc' # "panicked") =>
          /\ app'.show_result
          /\ app'.result_message =
               check_answer([app EXCEPT !.show_result = FALSE,
                                        !.result_message = <<>>]).app.result_message
          /\ app'.result_message # <<>> ]_vars

\* a question graded again, this time Incorrect
C6_Witness ==
    /\ op = "check_answer" /\ Running /\ was_shown
    /\ app.result_message # CorrectMessage

\* C7: on an empty verb list next_verb, check_answer and the read of the current
\* verb in update all panic, leave the quiz state as it was and draw nothing.
C7_EmptyListFailsFast ==
    [][ (Len(app.verbs) = 0 /\ op' \in {"next_verb", "check_answer", "update"}) =>
          /\ pc' = "panicked"
          /\ QuizState(app') = QuizState(app)
          /\ ~frame'.shown ]_vars

\* next_verb called on an empty list with text in the answer field
C7_Witness ==
    /\ Len(app.verbs) = 0
    /\ pc = "panicked" /\ op = "next_verb"
    /\ app.user_answer # <<>>

\* C8 as stated: the index is below the length of the list in every state,
\* for every list new() accepts.
C8_IndexBelowLength ==
    0 <= app.current_verb_index /\ app.current_verb_index < Len(app.verbs)

\* C8 amended: the index is never negative, is below the length of a non-empty
\* list, and is 0 for an empty list.
C8_IndexBelowLengthUnlessEmpty ==
    /\ 0 <= app.current_verb_index
    /\ Len(app.verbs) > 0 => app.current_verb_index < Len(app.verbs)
    /\ Len(app.verbs) = 0 => app.current_verb_index = 0

\* next_verb has wrapped from the last verb to the first
C8_Witness ==
    /\ op = "next_verb" /\ Running
    /\ Len(app.verbs) >= 2
    /\ app.current_verb_index = 0

\* C9: from every state with a non-empty list one next_verb can give each of
\* the four kinds of question; the mode and form are always among the declared
\* ones; the form changes only in a next_verb that chooses Conjugation.
C9_SelectionTotal ==
    /\ [](/\ app.practice_mode \in PracticeModes
          /\ app.conjugation_form \in ConjugationForms
          /\ (Len(app.verbs) > 0 /\ Running) =>
                \A kind \in Kinds : \E coin \in BOOLEAN, n \in 0..2 :
                    /\ ~next_verb(app, coin, n).panic
                    /\ Kind(next_verb(app, coin, n).app) = kind)
    /\ [][ app'.conjugation_form # app.conjugation_form =>
             op' = "next_verb" /\ app'.practice_mode = "Conjugation" ]_vars

\* a graded conjugation question is followed by a past participle question
C9_Witness ==
    /\ op = "next_verb" /\ Running /\ was_shown
    /\ Kind(app) = <<"Conjugation", "PastParticiple">>

\* C10: a result is on display exactly when check_answer has run since new()
\* or the last next_verb, and an Incorrect result names the asked field of the
\* question that is current; the same holds of what a frame draws.
C10_ResultBelongsToQuestion ==
    /\ app.show_result <=> graded
    /\ (app.show_result /\ app.result_message # CorrectMessage) =>
          app.result_message = IncorrectMessage(ExpectedAnswer(app))
    /\ (frame.shown /\ frame.show_result /\ frame.result_message # CorrectMessage) =>
          frame.result_message =
              IncorrectMessage(AskedField(frame.current_verb, frame.practice_mode,
                                          frame.conjugation_form))

\* a frame draws an Incorrect result for a question reached by next_verb
C10_Witness ==
    /\ frame.shown /\ frame.show_result
    /\ frame.result_message # CorrectMessage
    /\ Len(hist) >= 2

====
